---------------------------- MODULE Spec2Model ----------------------------
(***************************************************************************)
(* Model of the two prime generators of ComputeBigPrimesCPP:               *)
(*   ComputePrimes64bits.cpp  (bounded domain, unsigned word u64)          *)
(*   ComputeBigPrimesCPP.cpp  (unbounded domain, boost cpp_int)            *)
(*                                                                         *)
(* The unsigned word is modelled with W bits instead of 64: every          *)
(* addition the program performs on a u64 is reduced modulo 2^W.  W is     *)
(* even, as 64 is (2^w - 1 is a multiple of 3 exactly when w is even).     *)
(* The 64-bit limb of random_base is modelled with LimbBits bits.          *)
(*                                                                         *)
(* ComputePrimes64bits.cpp compiles only where _MSC_VER is defined (the    *)
(* other branch of mul_mod uses the type u128, whose declaration on line   *)
(* 22 is commented out), so mul_mod is the doubling loop of lines 41-60.   *)
(***************************************************************************)
EXTENDS Integers, Sequences, FiniteSets

VARIABLES
  pc,       \* position of generate_primes / generate_primes_u64
  start,    \* argument start
  count,    \* argument count
  primes,   \* the result vector
  n,        \* the candidate
  t,        \* Miller-Rabin round counter (unbounded domain)
  a,        \* the base drawn for the current round (unbounded domain)
  fn,       \* pure function under evaluation ("none" when a generator runs)
  x, y, m,  \* its arguments
  done,     \* whether it has been applied
  out,      \* its integer result
  verdict   \* its boolean result

vars == <<pc, start, count, primes, n, t, a, fn, x, y, m, done, out, verdict>>
genVars == <<pc, start, count, primes, n, t, a>>
fnVars == <<fn, x, y, m, done, out, verdict>>

---------------------------------------------------------------------------
(* Bounds of the model *)

(* W: bits of the unsigned word (64 in the program); LimbBits: bits of one *)
(* random word of random_base (64 in the program); Edge: how many values   *)
(* around 0, 2^(W-1) and 2^W - 1 the arguments of the modular arithmetic   *)
(* take; MaxN: largest argument of is_prime_u64 and next_candidate;        *)
(* MaxCount, MaxCountBig: largest count; SmallStart, NearTop,              *)
(* BigStartSpan: widths of the ranges of start.                            *)

W == 12
LimbBits == 3
Edge == 3
MaxN == 1800
MaxCount == 3
NearTop == 20
SmallStart == 6
BigStartSpan == 6
MaxCountBig == 1

RECURSIVE Pow2(_)
Pow2(k) == IF k = 0 THEN 1 ELSE 2 * Pow2(k - 1)

TwoW == Pow2(W)
(* std::numeric_limits<u64>::max() *)
UMax == TwoW - 1
(* u64 arithmetic: the result of + on the unsigned word *)
Wrap(v) == v % TwoW

(* Trial-division reference, used only in the properties *)
IsPrimeRef(k) == k >= 2 /\ \A q \in 2..(k - 1) : q * q > k \/ k % q # 0

---------------------------------------------------------------------------
(* Bounded domain: ComputePrimes64bits.cpp *)

(* the while (bb) loop of mul_mod, one recursion per iteration; *)
(* st = <<result, base, bb>>                                    *)
RECURSIVE mul_mod_loop(_, _)
mul_mod_loop(st, mod) ==
  LET result == st[1]
      base == st[2]
      bb == st[3]
  IN IF bb = 0 THEN result % mod
     ELSE LET tmp0 == Wrap(result + base)
              tmp1 == IF tmp0 < result \/ tmp0 >= mod THEN tmp0 % mod ELSE tmp0
              result1 == IF bb % 2 = 1 THEN tmp1 % mod ELSE result
              bb1 == bb \div 2
              base0 == Wrap(base + base)
              base1 == IF bb1 # 0
                       THEN (IF base0 >= mod \/ base0 < Wrap(base0 - base0)
                             THEN base0 % mod ELSE base0)
                       ELSE base
          IN mul_mod_loop(<<result1, base1, bb1>>, mod)

mul_mod(aa, b, mod) == mul_mod_loop(<<0, aa % mod, b>>, mod)

(* the while (d) loop of pow_mod; st = <<res, a, d>> *)
RECURSIVE pow_mod_loop(_, _)
pow_mod_loop(st, mod) ==
  IF st[3] = 0 THEN st[1]
  ELSE pow_mod_loop(<<IF st[3] % 2 = 1 THEN mul_mod(st[1], st[2], mod) ELSE st[1],
                      mul_mod(st[2], st[2], mod), st[3] \div 2>>, mod)

pow_mod(aa, d, mod) == pow_mod_loop(<<1, aa % mod, d>>, mod)

small_primes == <<2, 3, 5, 7, 11, 13, 17, 19, 23, 29, 31, 37>>

(* The seven bases.  Each is used only through a % n (line 102) and the   *)
(* a %= mod of pow_mod (line 72), which are exact on the 64-bit word.     *)
bases == <<2, 325, 9375, 28178, 450775, 9780504, 1795265022>>

(* for (p : table) { if (n == p) return true; if (n % p == 0) return false; } *)
(* "prime", "composite", or "undecided" when the loop falls through: the     *)
(* first entry that equals or divides n decides                              *)
trial_division(k, table) ==
  LET hits == {i \in 1..Len(table) : k = table[i] \/ k % table[i] = 0}
  IN IF hits = {} THEN "undecided"
     ELSE LET first == CHOOSE i \in hits : \A j \in hits : i <= j
          IN IF k = table[first] THEN "prime" ELSE "composite"

(* while ((d & 1) == 0) { d >>= 1; ++s; } : returns <<d, s>> *)
RECURSIVE decompose_loop(_)
decompose_loop(ds) ==
  IF ds[1] % 2 = 0 THEN decompose_loop(<<ds[1] \div 2, ds[2] + 1>>) ELSE ds

(* for (r = 1; r < s; ++r) { x = mul_mod(x, x, n); if (x == n-1) found } *)
RECURSIVE squarings_u64(_, _, _)
squarings_u64(xr, s, k) ==
  IF xr[2] >= s THEN FALSE
  ELSE LET x1 == mul_mod(xr[1], xr[1], k)
       IN IF x1 = k - 1 THEN TRUE ELSE squarings_u64(<<x1, xr[2] + 1>>, s, k)

base_passes_u64_nominus(aa, d, s, k) ==
  IF aa % k = 0 THEN TRUE
  ELSE LET xx == pow_mod(aa, d, k)
       IN IF xx = 1 THEN TRUE ELSE squarings_u64(<<xx, 1>>, s, k)

(* the body of for (u64 a : bases): TRUE when the loop continues *)
base_passes_u64(aa, d, s, k) ==
  IF aa % k = 0 THEN TRUE
  ELSE LET xx == pow_mod(aa, d, k)
       IN IF xx = 1 \/ xx = k - 1 THEN TRUE ELSE squarings_u64(<<xx, 1>>, s, k)

is_prime_u64(k) ==
  IF k < 2 THEN FALSE
  ELSE LET td == trial_division(k, small_primes)
       IN IF td = "prime" THEN TRUE
          ELSE IF td = "composite" THEN FALSE
          ELSE LET ds == decompose_loop(<<k - 1, 0>>)
               IN \A i \in 1..Len(bases) : base_passes_u64(bases[i], ds[1], ds[2], k)

(* while (n % 3 == 0) n += 2; *)
RECURSIVE skip3(_)
skip3(k) == IF k % 3 = 0 THEN skip3(Wrap(k + 2)) ELSE k

next_candidate_u64(k) ==
  IF k <= 2 THEN 2
  ELSE skip3(IF k % 2 = 0 THEN Wrap(k + 1) ELSE k)

---------------------------------------------------------------------------
(* Unbounded domain: ComputeBigPrimesCPP.cpp *)

SMALL_PRIMES ==
  <<2,3,5,7,11,13,17,19,23,29,31,37,41,43,47,53,59,61,67,71,
    73,79,83,89,97,101,103,107,109,113,127,131,137,139,149,151,
    157,163,167,173,179,181,191,193,197,199,211,223,227,229,233,
    239,241,251,257,263,269,271,277,281,283,293,307,311,313,317,
    331,337,347,349,353,359,367,373,379,383,389,397,401,409,419,
    421,431,433,439,443,449,457,461,463,467,479,487,491,499>>

mulmod(aa, b, mod) == (aa * b) % mod

(* the while (exp > 0) loop of powmod; st = <<res, base, exp>> *)
RECURSIVE powmod_loop(_, _)
powmod_loop(st, mod) ==
  IF st[3] > 0
  THEN powmod_loop(<<IF st[3] % 2 # 0 THEN mulmod(st[1], st[2], mod) ELSE st[1],
                     mulmod(st[2], st[2], mod), st[3] \div 2>>, mod)
  ELSE st[1]

powmod(base, exp, mod) == powmod_loop(<<1 % mod, base % mod, exp>>, mod)

decompose(k) == decompose_loop(<<k - 1, 0>>)

(* boost::multiprecision::msb: index of the most significant set bit *)
RECURSIVE msb(_)
msb(v) == IF v <= 1 THEN 0 ELSE 1 + msb(v \div 2)

(* a <<= 64; a += word, for each word *)
RECURSIVE assemble(_, _, _)
assemble(acc, words, i) ==
  IF i > Len(words) THEN acc
  ELSE assemble(acc * Pow2(LimbBits) + words[i], words, i + 1)

(* number of words random_base draws for limit_minus_two *)
limbs(limit) == IF limit <= 2 THEN 0
                ELSE ((msb(limit) + 1) + (LimbBits - 1)) \div LimbBits

(* values of dist64(rng): uniform_int_distribution(2, max) *)
Words == 2..(Pow2(LimbBits) - 1)

random_base_biased(limit, words) ==
  IF limit <= 2 THEN 2
  ELSE LET a0 == assemble(0, words, 1)
           a1 == IF a0 <= 1 THEN a0 + 2 ELSE a0
       IN (a1 % limit) + 2

(* the lambda random_base, given the words the engine returns *)
random_base(limit, words) ==
  IF limit <= 2 THEN 2
  ELSE LET a0 == assemble(0, words, 1)
           a1 == IF a0 <= 1 THEN a0 + 2 ELSE a0
       IN (a1 % (limit - 1)) + 2

RECURSIVE squarings(_, _, _)
squarings(xr, s, k) ==
  IF xr[2] >= s THEN FALSE
  ELSE LET x1 == mulmod(xr[1], xr[1], k)
       IN IF x1 = k - 1 THEN TRUE ELSE squarings(<<x1, xr[2] + 1>>, s, k)

round_passes_nominus(aa, k) ==
  LET ds == decompose(k)
      xx == powmod(aa, ds[1], k)
  IN IF xx = 1 THEN TRUE ELSE squarings(<<xx, 1>>, ds[2], k)

(* one round of miller_rabin after the base is drawn: TRUE when it passes *)
round_passes(aa, k) ==
  LET ds == decompose(k)
      xx == powmod(aa, ds[1], k)
  IN IF xx = 1 \/ xx = k - 1 THEN TRUE ELSE squarings(<<xx, 1>>, ds[2], k)

(* int rounds = 32 *)
rounds == 32

RECURSIVE skip35(_)
skip35(k) == IF k % 3 # 0 /\ k % 5 # 0 THEN k ELSE skip35(k + 2)

next_candidate(k) ==
  IF k <= 2 THEN 2
  ELSE skip35(IF k % 2 = 0 THEN k + 1 ELSE k)

---------------------------------------------------------------------------
(* Pure functions applied to inputs drawn from bounded sets *)

Half == Pow2(W - 1)
EdgeWords == (0..Edge) \cup ((Half - Edge)..(Half + Edge)) \cup ((UMax - Edge)..UMax)

GenIdle ==
  /\ pc = "idle" /\ start = 0 /\ count = 0 /\ primes = <<>>
  /\ n = 0 /\ t = 0 /\ a = 0

InitArith ==
  /\ GenIdle
  /\ done = FALSE /\ out = 0 /\ verdict = FALSE
  /\ \/ /\ fn \in {"mul_mod", "pow_mod", "powmod"}
        /\ x \in EdgeWords /\ y \in EdgeWords /\ m \in EdgeWords \ {0}
     \/ /\ fn = "next_candidate_u64"
        /\ x \in 0..UMax /\ y = 0 /\ m = 0
     \/ /\ fn \in {"next_candidate", "is_prime_u64"}
        /\ x \in 0..MaxN /\ y = 0 /\ m = 0

Apply_mul_mod ==
  /\ fn = "mul_mod" /\ ~done
  /\ out' = mul_mod(x, y, m)
  /\ done' = TRUE
  /\ UNCHANGED <<genVars, fn, x, y, m, verdict>>

Apply_pow_mod ==
  /\ fn = "pow_mod" /\ ~done
  /\ out' = pow_mod(x, y, m)
  /\ done' = TRUE
  /\ UNCHANGED <<genVars, fn, x, y, m, verdict>>

Apply_powmod ==
  /\ fn = "powmod" /\ ~done
  /\ out' = powmod(x, y, m)
  /\ done' = TRUE
  /\ UNCHANGED <<genVars, fn, x, y, m, verdict>>

Apply_next_candidate_u64 ==
  /\ fn = "next_candidate_u64" /\ ~done
  /\ out' = next_candidate_u64(x)
  /\ done' = TRUE
  /\ UNCHANGED <<genVars, fn, x, y, m, verdict>>

Apply_next_candidate ==
  /\ fn = "next_candidate" /\ ~done
  /\ out' = next_candidate(x)
  /\ done' = TRUE
  /\ UNCHANGED <<genVars, fn, x, y, m, verdict>>

Apply_is_prime_u64 ==
  /\ fn = "is_prime_u64" /\ ~done
  /\ verdict' = is_prime_u64(x)
  /\ done' = TRUE
  /\ UNCHANGED <<genVars, fn, x, y, m, out>>

NextArith ==
  \/ Apply_mul_mod
  \/ Apply_pow_mod
  \/ Apply_powmod
  \/ Apply_next_candidate_u64
  \/ Apply_next_candidate
  \/ Apply_is_prime_u64

SpecArith == InitArith /\ [][NextArith]_vars

---------------------------------------------------------------------------
(* generate_primes_u64 *)

FnIdle ==
  /\ fn = "none" /\ x = 0 /\ y = 0 /\ m = 0
  /\ done = FALSE /\ out = 0 /\ verdict = FALSE

StartsU64 == (0..SmallStart) \cup ((UMax - NearTop)..UMax)

InitU64 ==
  /\ FnIdle
  /\ pc = "start"
  /\ start \in StartsU64
  /\ count \in 0..MaxCount
  /\ primes = <<>> /\ n = 0 /\ t = 0 /\ a = 0

(* lines 126-129 *)
Begin_u64 ==
  /\ pc = "start"
  /\ LET c == next_candidate_u64(start)
     IN IF c = 2 THEN primes' = <<2>> /\ n' = 3
                 ELSE primes' = primes /\ n' = c
  /\ pc' = "loop"
  /\ UNCHANGED <<start, count, t, a, fnVars>>

(* one iteration of the while loop, lines 130-134 *)
Loop_u64 ==
  /\ pc = "loop"
  /\ Len(primes) < count
  /\ primes' = IF is_prime_u64(n) THEN Append(primes, n) ELSE primes
  /\ IF n >= UMax - 2 THEN pc' = "done" /\ n' = n
                      ELSE pc' = "loop" /\ n' = Wrap(n + 2)
  /\ UNCHANGED <<start, count, t, a, fnVars>>

(* the loop condition fails, line 136 *)
Return_u64 ==
  /\ pc = "loop"
  /\ Len(primes) >= count
  /\ pc' = "done"
  /\ UNCHANGED <<start, count, primes, n, t, a, fnVars>>

NextU64 == Begin_u64 \/ Loop_u64 \/ Return_u64

SpecU64 == InitU64 /\ [][NextU64]_vars

---------------------------------------------------------------------------
(* generate_primes, with is_prime and the rounds of miller_rabin as steps *)

(* small starts, and starts just above the last entry of SMALL_PRIMES, *)
(* whose candidates reach the rounds of miller_rabin                   *)
AboveTable == SMALL_PRIMES[Len(SMALL_PRIMES)] + 1
StartsBig == (0..SmallStart) \cup (AboveTable..(AboveTable + BigStartSpan))

InitBig ==
  /\ FnIdle
  /\ pc = "start"
  /\ start \in StartsBig
  /\ count \in 0..MaxCountBig
  /\ primes = <<>> /\ n = 0 /\ t = 0 /\ a = 0

(* lines 116-120 *)
Begin_big ==
  /\ pc = "start"
  /\ LET c == next_candidate(start)
     IN IF c = 2 THEN primes' = <<c>> /\ n' = 3
                 ELSE primes' = primes /\ n' = c
  /\ pc' = "loop"
  /\ UNCHANGED <<start, count, t, a, fnVars>>

(* is_prime(n, &rng) up to the first round: the trial division of lines    *)
(* 97-102, which miller_rabin repeats on lines 50-55 with the same outcome *)
Loop_big ==
  /\ pc = "loop"
  /\ Len(primes) < count
  /\ LET td == IF n < 2 THEN "composite" ELSE trial_division(n, SMALL_PRIMES)
     IN IF td = "undecided"
        THEN pc' = "draw" /\ UNCHANGED <<primes, n>>
        ELSE /\ pc' = "loop"
             /\ primes' = IF td = "prime" THEN Append(primes, n) ELSE primes
             /\ n' = n + 2
  /\ t' = 0
  /\ UNCHANGED <<start, count, a, fnVars>>

(* cpp_int a = random_base(n - 2), line 83: the engine returns any words *)
Draw_big ==
  /\ pc = "draw"
  /\ t < rounds
  /\ \E words \in [1..limbs(n - 2) -> Words] : a' = random_base(n - 2, words)
  /\ pc' = "test"
  /\ UNCHANGED <<start, count, primes, n, t, fnVars>>

(* lines 84-91: the round passes, or miller_rabin returns false and the *)
(* loop of generate_primes advances                                     *)
Test_big ==
  /\ pc = "test"
  /\ IF round_passes(a, n)
     THEN pc' = "draw" /\ t' = t + 1 /\ n' = n
     ELSE pc' = "loop" /\ t' = 0 /\ n' = n + 2
  /\ a' = 0
  /\ UNCHANGED <<start, count, primes, fnVars>>

(* line 93 return true, then lines 122-123 *)
Accept_big ==
  /\ pc = "draw"
  /\ t >= rounds
  /\ primes' = Append(primes, n)
  /\ n' = n + 2
  /\ t' = 0
  /\ pc' = "loop"
  /\ UNCHANGED <<start, count, a, fnVars>>

(* line 125 *)
Return_big ==
  /\ pc = "loop"
  /\ Len(primes) >= count
  /\ pc' = "done"
  /\ UNCHANGED <<start, count, primes, n, t, a, fnVars>>

NextBig == Begin_big \/ Loop_big \/ Draw_big \/ Test_big \/ Accept_big \/ Return_big

SpecBig == InitBig /\ [][NextBig]_vars

---------------------------------------------------------------------------
(* Properties *)

StrictlyIncreasing(seq) == \A i \in 1..(Len(seq) - 1) : seq[i] < seq[i + 1]

(* number of primes in [lo, UMax] *)
PrimesFrom(lo) == Cardinality({q \in lo..UMax : IsPrimeRef(q)})

(* C1: the returned sequence never has more than count elements, and has  *)
(* exactly count unless the clamp at the numeric ceiling stopped the loop; *)
(* count = 0 returns the empty sequence.                                  *)
C1_LengthIsCount ==
  pc = "done" =>
    /\ Len(primes) <= count
    /\ (Len(primes) = count \/ n >= UMax - 2)

(* C2: next_candidate / next_candidate_u64 never skips a prime: no prime p *)
(* with n <= p < next_candidate(n).                                        *)
C2_NoPrimeSkipped ==
  (done /\ fn \in {"next_candidate", "next_candidate_u64"}) =>
    \A q \in x..(out - 1) : ~IsPrimeRef(q)

(* C3: the returned sequence is strictly increasing and every element of *)
(* it is >= start, for every start of the unsigned word.                 *)
C3_IncreasingFromStart ==
  pc = "done" =>
    /\ StrictlyIncreasing(primes)
    /\ \A i \in 1..Len(primes) : primes[i] >= start

(* C4: near the maximum of the word generate_primes_u64 halts with fewer  *)
(* than count values when fewer than count primes lie in [start, 2^w - 1], *)
(* and the candidate never wraps around: it never falls below start.      *)
C4_NoWrapNearCeiling ==
  /\ (pc # "start" => n >= start)
  /\ ((pc = "done" /\ PrimesFrom(start) < count) => Len(primes) < count)

(* C5: next_candidate is idempotent on its own output, in both domains. *)
C5_Idempotent ==
  /\ (done /\ fn = "next_candidate") => next_candidate(out) = out
  /\ (done /\ fn = "next_candidate_u64") => next_candidate_u64(out) = out

(* C6: mul_mod(a, b, mod) is (a * b) mod mod of the true product, also for *)
(* moduli above 2^(w-1).                                                   *)
C6_MulModExact ==
  (done /\ fn = "mul_mod") => out = (x * y) % m

(* C7: the modular exponentiation returns 0 whenever the modulus is 1, in *)
(* both domains, for every base and exponent, exponent 0 included.        *)
C7_ModulusOneGivesZero ==
  (done /\ fn \in {"pow_mod", "powmod"} /\ m = 1) => out = 0

(* C8: is_prime_u64(n) agrees with the trial-division reference for every *)
(* n of the range 0..MaxN.                                                *)
C8_AgreesWithReference ==
  (done /\ fn = "is_prime_u64") => (verdict <=> IsPrimeRef(x))

(* a composite whose prime factors are all above 37 (41 * 43), rejected by *)
(* the Miller-Rabin stage                                                  *)
C8_Witness ==
  /\ done /\ fn = "is_prime_u64" /\ x = 1763 /\ ~verdict
  /\ trial_division(x, small_primes) = "undecided"

(* C9: every base a Miller-Rabin round draws lies in [2, n - 2]. *)
C9_BaseInRange ==
  pc = "test" => (a >= 2 /\ a <= n - 2)

(* a round of a candidate that passed the trial division drew the largest *)
(* base of the range                                                      *)
C9_Witness ==
  pc = "test" /\ trial_division(n, SMALL_PRIMES) = "undecided" /\ a = n - 2

(* C10: no false negatives: whenever generate_primes moves past a candidate *)
(* without appending it (is_prime returned false), the candidate is not a   *)
(* prime, whatever bases the rounds drew.                                   *)
C10_NoFalseNegative ==
  [][(pc \in {"loop", "test"} /\ pc' = "loop" /\ primes' = primes)
       => ~IsPrimeRef(n)]_vars

(* a prime above the table went through all the rounds and was appended *)
C10_Witness ==
  /\ pc = "loop" /\ Len(primes) >= 1
  /\ primes[Len(primes)] > 499 /\ IsPrimeRef(primes[Len(primes)])
  /\ n = primes[Len(primes)] + 2

=============================================================================
